---- MODULE Spec2Model ----
(***************************************************************************)
(* Page components of the DH-pro front-end as state machines.              *)
(*                                                                         *)
(*   qt  QuizTaking        src/src/pages/QuizTaking.tsx                    *)
(*   sb  Subjects          src/unnamed/part_001 (with chapter locking)     *)
(*                         src/unnamed/part_000 (without)                  *)
(*   gs  GradeSubmission   src/src/pages/LessonPlanner.tsx, lines 331-780  *)
(*   ca  CreateAssignment  src/src/pages/CreateAssignment.tsx              *)
(*   lp  LessonPlanner     src/src/pages/LessonPlanner.tsx, lines 1-329    *)
(*                                                                         *)
(* Every component is one record variable whose fields carry the names of  *)
(* the component's useState cells.  Requests in flight, the current route  *)
(* and the last toast are fields of the same record.  Each component has   *)
(* its own next-state relation and specification, in which that page is    *)
(* the one mounted and the other components are NotMounted.                *)
(***************************************************************************)
EXTENDS Integers, Sequences, FiniteSets, TLC

VARIABLES qt, userSelected, sb, gs, ca, lp

vars == <<qt, userSelected, sb, gs, ca, lp>>

\* the value of a component that is not on screen
NotMounted == [route |-> "unmounted"]

(***************************************************************************)
(* Bounds                                                                  *)
(***************************************************************************)
\* timer ticks modelled after the time limit has been reached
MaxOvertime == 1
\* timer ticks modelled while no time limit is known (loading, untimed quiz)
MaxIdleTicks == 2
\* largest value of floor((Date.now() - questionStartTime) / 1000) drawn
MaxTimeSpent == 1

\* ids of the questions the start response may carry, in question order
QuestionIds == <<1, 2>>
\* keys of Question.options
OptionKeys == {"A", "B"}
\* Quiz.time_limit values of the start response; 0 stands for null
TimeLimits == {0, 1}

(***************************************************************************)
(* Map<number, T> as a function on the set of keys present                 *)
(***************************************************************************)
EmptyMap == [k \in {} |-> 0]

MapHas(m, k) == k \in DOMAIN m

\* new Map(m).set(k, v)
MapSet(m, k, v) == [x \in (DOMAIN m) \cup {k} |-> IF x = k THEN v ELSE m[x]]

(***************************************************************************)
(* QuizTaking                                                              *)
(***************************************************************************)
NoQuiz == [time_limit |-> -1]

QuizInit ==
    [ route                |-> "quiz",
      fetch                |-> "pending",
      loading              |-> TRUE,
      quiz                 |-> NoQuiz,
      attemptId            |-> 0,
      questions            |-> <<>>,
      currentQuestionIndex |-> 0,
      answers              |-> EmptyMap,
      questionTimes        |-> EmptyMap,
      elapsedTime          |-> 0,
      submitting           |-> FALSE,
      pending              |-> 0,
      toast                |-> "none" ]

\* questions[currentQuestionIndex]; the index is 0-based in the source
HasCurrentQuestion(s) == s.currentQuestionIndex + 1 \in DOMAIN s.questions

currentQuestion(s) == s.questions[s.currentQuestionIndex + 1]

\* the page below the "loading" and "noQuestions" early returns is shown
QuizShown(s) ==
    /\ s.route = "quiz"
    /\ ~s.loading
    /\ s.quiz # NoQuiz
    /\ HasCurrentQuestion(s)

\* quiz?.time_limit && elapsedTime >= quiz.time_limit * 60
TimeLimitReached(s) ==
    /\ s.quiz # NoQuiz
    /\ s.quiz.time_limit # 0
    /\ s.elapsedTime >= s.quiz.time_limit * 60

\* answers.get(q.id) || ""   and   finalTimes.get(q.id) || 0
AnswerOf(answers, id) == IF MapHas(answers, id) THEN answers[id] ELSE ""

TimeOf(times, id) == IF MapHas(times, id) THEN times[id] ELSE 0

AnswersArray(questions, answers, finalTimes) ==
    [i \in DOMAIN questions |->
        [ question_id |-> questions[i],
          answer      |-> AnswerOf(answers, questions[i]),
          time_spent  |-> TimeOf(finalTimes, questions[i]) ]]

Unanswered(arr) == Cardinality({i \in DOMAIN arr : arr[i].answer = ""})

\* SubmittedAnswers with answersArray built from questionTimes, the time of
\* the current question not recorded
SubmittedAnswersStaleTimes(s, timeSpent) ==
    AnswersArray(s.questions, s.answers, s.questionTimes)

\* answersArray of handleSubmit, the body of its POST: timeSpent is the
\* clock reading floor((Date.now() - questionStartTime) / 1000)
SubmittedAnswers(s, timeSpent) ==
    LET finalTimes == MapSet(s.questionTimes, currentQuestion(s), timeSpent)
    IN  AnswersArray(s.questions, s.answers, finalTimes)

\* handleSubmit, up to the await of the POST: timeSpent is the clock reading
\* floor((Date.now() - questionStartTime) / 1000), confirm the answer given
\* to window.confirm.  With no current question the first use of
\* currentQuestion.id throws and nothing else happens.
handleSubmit(s, timeSpent, confirm) ==
    IF ~HasCurrentQuestion(s) THEN s
    ELSE LET answersArray == SubmittedAnswers(s, timeSpent)
         IN  IF Unanswered(answersArray) > 0 /\ ~confirm
             THEN s
             ELSE [s EXCEPT !.submitting = TRUE, !.pending = @ + 1]

\* the effect on [elapsedTime, quiz], run after a render that changed either
TimeLimitEffect(s, timeSpent, confirm) ==
    IF TimeLimitReached(s)
    THEN handleSubmit([s EXCEPT !.toast = "warning"], timeSpent, confirm)
    ELSE s

\* fetchQuiz: GET /quizzes/chapter/{id} returned no quiz
FetchQuizNone ==
    /\ qt.fetch = "pending"
    /\ qt' = [qt EXCEPT !.fetch = "done", !.toast = "error", !.route = "subjects"]
    /\ UNCHANGED <<userSelected, sb, gs, ca, lp>>

\* fetchQuiz: one of the two requests failed
FetchQuizFail ==
    /\ qt.fetch = "pending"
    /\ qt' = [qt EXCEPT !.fetch = "done", !.toast = "error", !.route = "subjects"]
    /\ UNCHANGED <<userSelected, sb, gs, ca, lp>>

\* fetchQuiz: the attempt was started
FetchQuizOk ==
    /\ qt.fetch = "pending"
    /\ \E tl \in TimeLimits, qs \in {<<>>, QuestionIds},
          timeSpent \in 0..MaxTimeSpent, confirm \in BOOLEAN :
          qt' = TimeLimitEffect(
                  [qt EXCEPT !.fetch = "done",
                             !.quiz = [time_limit |-> tl],
                             !.attemptId = 1,
                             !.questions = qs,
                             !.loading = FALSE],
                  timeSpent, confirm)
    /\ UNCHANGED <<userSelected, sb, gs, ca, lp>>

\* ticks the model lets the interval timer make in state s
TickCap(s) ==
    IF s.quiz # NoQuiz /\ s.quiz.time_limit # 0
    THEN s.quiz.time_limit * 60 + MaxOvertime
    ELSE MaxIdleTicks

\* setInterval callback, followed by the time-limit effect
Tick ==
    /\ qt.route = "quiz"
    /\ qt.elapsedTime < TickCap(qt)
    /\ \E timeSpent \in 0..MaxTimeSpent, confirm \in BOOLEAN :
          qt' = TimeLimitEffect([qt EXCEPT !.elapsedTime = @ + 1], timeSpent, confirm)
    /\ UNCHANGED <<userSelected, sb, gs, ca, lp>>

\* SetAnswer without the copy of the previous map: new Map().set(id, value)
SetAnswerFresh(answers, id, value) == MapSet(EmptyMap, id, value)

\* newAnswers = new Map(answers); newAnswers.set(id, value)
SetAnswer(answers, id, value) == MapSet(answers, id, value)

handleAnswerChange ==
    /\ QuizShown(qt)
    /\ \E value \in OptionKeys :
          /\ qt' = [qt EXCEPT !.answers = SetAnswer(@, currentQuestion(qt), value)]
          /\ userSelected' = MapSet(userSelected, currentQuestion(qt), value)
    /\ UNCHANGED <<sb, gs, ca, lp>>

handleNext ==
    /\ QuizShown(qt)
    /\ qt.currentQuestionIndex < Len(qt.questions) - 1
    /\ \E timeSpent \in 0..MaxTimeSpent :
          qt' = [qt EXCEPT
                   !.questionTimes = MapSet(@, currentQuestion(qt), timeSpent),
                   !.currentQuestionIndex = @ + 1]
    /\ UNCHANGED <<userSelected, sb, gs, ca, lp>>

handlePrevious ==
    /\ QuizShown(qt)
    /\ qt.currentQuestionIndex > 0
    /\ qt' = [qt EXCEPT !.currentQuestionIndex = @ - 1]
    /\ UNCHANGED <<userSelected, sb, gs, ca, lp>>

\* onClick of a question navigator button
JumpToQuestion ==
    /\ QuizShown(qt)
    /\ \E index \in 0..(Len(qt.questions) - 1), timeSpent \in 0..MaxTimeSpent :
          qt' = [qt EXCEPT
                   !.questionTimes = MapSet(@, currentQuestion(qt), timeSpent),
                   !.currentQuestionIndex = index]
    /\ UNCHANGED <<userSelected, sb, gs, ca, lp>>

\* the Submit button: shown on the last question, disabled while submitting
SubmitButton ==
    /\ QuizShown(qt)
    /\ ~(qt.currentQuestionIndex < Len(qt.questions) - 1)
    /\ ~qt.submitting
    /\ \E timeSpent \in 0..MaxTimeSpent, confirm \in BOOLEAN :
          qt' = handleSubmit(qt, timeSpent, confirm)
    /\ UNCHANGED <<userSelected, sb, gs, ca, lp>>

\* the POST of handleSubmit resolved
SubmitOk ==
    /\ qt.pending > 0
    /\ qt' = [qt EXCEPT !.pending = @ - 1, !.toast = "success", !.route = "results"]
    /\ UNCHANGED <<userSelected, sb, gs, ca, lp>>

\* the POST of handleSubmit was rejected
SubmitFail ==
    /\ qt.pending > 0
    /\ qt' = [qt EXCEPT !.pending = @ - 1, !.toast = "error",
                        !.submitting = IF qt.route = "quiz" THEN FALSE ELSE @]
    /\ UNCHANGED <<userSelected, sb, gs, ca, lp>>

(***************************************************************************)
(* handleSubmit with the body of its POST kept: posts lists the requests   *)
(* sent, each with the answers of the payload and, beside them, the clock  *)
(* reading the handler took.  The page starts from any state in which the  *)
(* quiz is shown and nothing is submitted: any current question, any       *)
(* answers selected, any times recorded by handleNext and the navigator.   *)
(***************************************************************************)
QuestionIdSet == {QuestionIds[i] : i \in DOMAIN QuestionIds}

\* Map<number, T> with keys among keys and values among values
Maps(keys, values) == UNION {[present -> values] : present \in SUBSET keys}

ShownQuizzes ==
    [ route                : {"quiz"},
      fetch                : {"done"},
      loading              : {FALSE},
      quiz                 : {[time_limit |-> tl] : tl \in TimeLimits},
      attemptId            : {1},
      questions            : {QuestionIds},
      currentQuestionIndex : 0..(Len(QuestionIds) - 1),
      answers              : Maps(QuestionIdSet, OptionKeys),
      questionTimes        : Maps(QuestionIdSet, 0..MaxTimeSpent),
      elapsedTime          : {0},
      submitting           : {FALSE},
      pending              : {0},
      toast                : {"none"},
      posts                : {<<>>} ]

\* api.post(`/quizzes/attempts/${attemptId}/submit`, {answers: answersArray})
\* of the handleSubmit call that led from before to after
PostSent(before, after, timeSpent) ==
    IF after.pending > before.pending
    THEN [after EXCEPT !.posts = Append(@, [answers   |-> SubmittedAnswers(after, timeSpent),
                                            timeSpent |-> timeSpent])]
    ELSE after

\* the Submit button, as SubmitButton
SubmitButtonPost ==
    /\ QuizShown(qt)
    /\ ~(qt.currentQuestionIndex < Len(qt.questions) - 1)
    /\ ~qt.submitting
    /\ \E timeSpent \in 0..MaxTimeSpent, confirm \in BOOLEAN :
          qt' = PostSent(qt, handleSubmit(qt, timeSpent, confirm), timeSpent)
    /\ UNCHANGED <<userSelected, sb, gs, ca, lp>>

\* setInterval callback, followed by the time-limit effect, as Tick
TickPost ==
    /\ qt.route = "quiz"
    /\ qt.elapsedTime < TickCap(qt)
    /\ \E timeSpent \in 0..MaxTimeSpent, confirm \in BOOLEAN :
          qt' = PostSent(qt, TimeLimitEffect([qt EXCEPT !.elapsedTime = @ + 1],
                                             timeSpent, confirm), timeSpent)
    /\ UNCHANGED <<userSelected, sb, gs, ca, lp>>

PayloadNext ==
    \/ SubmitButtonPost
    \/ TickPost


(***************************************************************************)
(* Subjects                                                                *)
(***************************************************************************)
\* ids of the subjects of useSubjects().data
SubjectIds == {1, 2}
\* ids of the chapters of subject 1, in the order the API lists them;
\* subject 2 has no chapters
ChapterIds == <<1, 2, 3>>
\* values of Chapter.order
ChapterOrders == 1..3
\* user?.role of useAuth(); "none" stands for no user
Roles == {"student", "teacher", "none"}

\* the chapter lists subject 1 may have
ChapterLists ==
    {[i \in DOMAIN ChapterIds |-> [id |-> ChapterIds[i], order |-> o[i]]] :
        o \in [DOMAIN ChapterIds -> ChapterOrders]}

ChapterIdSet == {ChapterIds[i] : i \in DOMAIN ChapterIds}

\* subject.chapters
ChaptersOf(st, subjectId) == IF subjectId = 1 THEN st.chapters ELSE <<>>

\* c placed behind the elements of the sorted list whose order is not larger
InsertByOrder(sorted, c) ==
    LET n == Cardinality({i \in DOMAIN sorted : sorted[i].order <= c.order})
    IN  SubSeq(sorted, 1, n) \o <<c>> \o SubSeq(sorted, n + 1, Len(sorted))

RECURSIVE SortByOrder(_)
\* [...subjectChapters].sort((a, b) => a.order - b.order), a stable sort
SortByOrder(chs) ==
    IF chs = <<>> THEN <<>>
    ELSE InsertByOrder(SortByOrder(SubSeq(chs, 1, Len(chs) - 1)), chs[Len(chs)])

\* sortedChapters.findIndex(c => c.id === id), 0-based, -1 when absent
FindIndex(sorted, id) ==
    LET hits == {i \in DOMAIN sorted : sorted[i].id = id}
    IN  IF hits = {} THEN -1
        ELSE (CHOOSE i \in hits : \A j \in hits : i <= j) - 1

\* isChapterLocked without the sort: the listed order is taken as it comes
isChapterLockedUnsorted(user, chapter, subjectChapters, completedChapters) ==
    IF user # "student" THEN FALSE
    ELSE LET sortedChapters == subjectChapters
             currentIndex   == FindIndex(sortedChapters, chapter.id)
         IN  IF currentIndex = 0 THEN FALSE
             ELSE LET previousChapter == sortedChapters[currentIndex]
                  IN  ~(previousChapter.id \in completedChapters)

\* isChapterLocked(chapter, subjectChapters), with user and completedChapters
\* of the component as parameters
isChapterLocked(user, chapter, subjectChapters, completedChapters) ==
    IF user # "student" THEN FALSE
    ELSE LET sortedChapters == SortByOrder(subjectChapters)
             currentIndex   == FindIndex(sortedChapters, chapter.id)
         IN  IF currentIndex = 0 THEN FALSE
             ELSE LET previousChapter == sortedChapters[currentIndex]
                  IN  ~(previousChapter.id \in completedChapters)

\* forceLocked with the temporary lock taken out
forceLockedOff(user, chapter) == FALSE

\* TEMPORARY: Force lock chapters 2+ for testing
forceLocked(user, chapter) == user = "student" /\ chapter.order > 1

\* the quiz Button is rendered
QuizButtonShown(user, isEnrolled) == user = "student" /\ isEnrolled

\* the quiz Button is rendered and not disabled
QuizButtonEnabled(locking, user, isEnrolled, chapter, subjectChapters, completedChapters) ==
    /\ QuizButtonShown(user, isEnrolled)
    /\ locking =>
          ~(\/ isChapterLocked(user, chapter, subjectChapters, completedChapters)
            \/ forceLocked(user, chapter))

SubjectsInits ==
    [ locking           : BOOLEAN,
      user              : Roles,
      chapters          : ChapterLists,
      route             : {"subjects"},
      quizChapter       : {0},
      enrolledCourses   : {{}},
      enrollingCourses  : {{}},
      completedChapters : {{}},
      fetchEnrollments  : {"pending"},
      fetchCompletions  : {"pending"},
      enrollPosts       : {{}},
      toast             : {"none"} ]

Mounted(st) == st.route = "subjects"

\* fetchEnrollments resolved; the effect starts it for students only
FetchEnrollmentsOk ==
    /\ sb.user = "student"
    /\ sb.fetchEnrollments = "pending"
    /\ \E subjectIds \in SUBSET SubjectIds :
          sb' = [sb EXCEPT !.fetchEnrollments = "done",
                           !.enrolledCourses = IF Mounted(sb) THEN subjectIds ELSE @]
    /\ UNCHANGED <<qt, userSelected, gs, ca, lp>>

FetchEnrollmentsFail ==
    /\ sb.user = "student"
    /\ sb.fetchEnrollments = "pending"
    /\ sb' = [sb EXCEPT !.fetchEnrollments = "failed"]
    /\ UNCHANGED <<qt, userSelected, gs, ca, lp>>

\* fetchChapterCompletions resolved: the chapters of the attempts that are
\* completed and passed
FetchCompletionsOk ==
    /\ sb.locking
    /\ sb.user = "student"
    /\ sb.fetchCompletions = "pending"
    /\ \E completedChapterIds \in SUBSET ChapterIdSet :
          sb' = [sb EXCEPT !.fetchCompletions = "done",
                           !.completedChapters =
                               IF Mounted(sb) THEN completedChapterIds ELSE @]
    /\ UNCHANGED <<qt, userSelected, gs, ca, lp>>

FetchCompletionsFail ==
    /\ sb.locking
    /\ sb.user = "student"
    /\ sb.fetchCompletions = "pending"
    /\ sb' = [sb EXCEPT !.fetchCompletions = "failed",
                        !.completedChapters = IF Mounted(sb) THEN {} ELSE @]
    /\ UNCHANGED <<qt, userSelected, gs, ca, lp>>

\* the enroll Button of a subject is rendered and not disabled
EnrollButtonEnabled(st, subjectId) ==
    /\ Mounted(st)
    /\ st.user = "student"
    /\ subjectId \notin st.enrolledCourses
    /\ subjectId \notin st.enrollingCourses

\* handleEnroll with the enrolledCourses update moved before the request
handleEnrollOptimistic(subjectId) ==
    /\ EnrollButtonEnabled(sb, subjectId)
    /\ sb' = [sb EXCEPT !.enrollingCourses = @ \cup {subjectId},
                        !.enrolledCourses = @ \cup {subjectId},
                        !.enrollPosts = @ \cup {subjectId}]
    /\ UNCHANGED <<qt, userSelected, gs, ca, lp>>

\* handleEnroll up to the await of POST /enrollments/
handleEnroll(subjectId) ==
    /\ EnrollButtonEnabled(sb, subjectId)
    /\ sb' = [sb EXCEPT !.enrollingCourses = @ \cup {subjectId},
                        !.enrollPosts = @ \cup {subjectId}]
    /\ UNCHANGED <<qt, userSelected, gs, ca, lp>>

\* handleEnroll after the POST succeeded, with its finally block
EnrollOk(subjectId) ==
    /\ subjectId \in sb.enrollPosts
    /\ sb' = [sb EXCEPT
                !.enrollPosts = @ \ {subjectId},
                !.enrolledCourses = IF Mounted(sb) THEN @ \cup {subjectId} ELSE @,
                !.toast = "success",
                !.enrollingCourses = IF Mounted(sb) THEN @ \ {subjectId} ELSE @]
    /\ UNCHANGED <<qt, userSelected, gs, ca, lp>>

\* handleEnroll after the POST failed, with its finally block
EnrollFail(subjectId) ==
    /\ subjectId \in sb.enrollPosts
    /\ sb' = [sb EXCEPT
                !.enrollPosts = @ \ {subjectId},
                !.toast = "error",
                !.enrollingCourses = IF Mounted(sb) THEN @ \ {subjectId} ELSE @]
    /\ UNCHANGED <<qt, userSelected, gs, ca, lp>>

\* handleQuizAccess(chapter.id, chapter, subject.chapters)
handleQuizAccess(st, chapter, subjectChapters) ==
    IF isChapterLocked(st.user, chapter, subjectChapters, st.completedChapters)
    THEN [st EXCEPT !.toast = "error"]
    ELSE [st EXCEPT !.route = "quiz", !.quizChapter = chapter.id]

\* a click on the quiz Button of a chapter
QuizButton ==
    /\ Mounted(sb)
    /\ \E subjectId \in SubjectIds :
          \E i \in DOMAIN ChaptersOf(sb, subjectId) :
             LET subjectChapters == ChaptersOf(sb, subjectId)
                 chapter         == subjectChapters[i]
             IN  /\ QuizButtonEnabled(sb.locking, sb.user,
                                      subjectId \in sb.enrolledCourses,
                                      chapter, subjectChapters, sb.completedChapters)
                 /\ sb' = IF sb.locking
                          THEN handleQuizAccess(sb, chapter, subjectChapters)
                          ELSE [sb EXCEPT !.route = "quiz",
                                          !.quizChapter = chapter.id]
    /\ UNCHANGED <<qt, userSelected, gs, ca, lp>>

SubjectsNext ==
    \/ FetchEnrollmentsOk
    \/ FetchEnrollmentsFail
    \/ FetchCompletionsOk
    \/ FetchCompletionsFail
    \/ \E subjectId \in SubjectIds : handleEnroll(subjectId)
    \/ \E subjectId \in SubjectIds : EnrollOk(subjectId)
    \/ \E subjectId \in SubjectIds : EnrollFail(subjectId)
    \/ QuizButton

(***************************************************************************)
(* isChapterLocked on its own: one render of one chapter row.  The         *)
(* arguments are drawn from every subject of up to MaxChapters chapters,   *)
(* listed in any order of their ids, with any orders, repeated or not.     *)
(***************************************************************************)
MaxChapters == 3

\* one-to-one maps of 1..n onto itself
Reorderings(n) ==
    {p \in [1..n -> 1..n] : \A i, j \in 1..n : p[i] = p[j] => i = j}

\* subject.chapters: n chapters with ids 1..n
ListedChapters(n) ==
    {[i \in 1..n |-> [id |-> p[i], order |-> o[i]]] :
        p \in Reorderings(n), o \in [1..n -> ChapterOrders]}

\* the state before the row of subjectChapters[index] is rendered
RenderInits ==
    UNION {[ route             : {"render"},
             user              : Roles,
             subjectChapters   : ListedChapters(n),
             index             : 1..n,
             completedChapters : SUBSET (1..n),
             rendered          : {FALSE},
             locked            : {FALSE} ] : n \in 1..MaxChapters}

\* const locked = isChapterLocked(chapter, subject.chapters) of the row
RenderChapter ==
    /\ sb.route = "render"
    /\ ~sb.rendered
    /\ sb' = [sb EXCEPT
                !.rendered = TRUE,
                !.locked = isChapterLocked(sb.user, sb.subjectChapters[sb.index],
                                           sb.subjectChapters, sb.completedChapters)]
    /\ UNCHANGED <<qt, userSelected, gs, ca, lp>>

RenderNext == RenderChapter


(***************************************************************************)
(* Strings and numbers                                                     *)
(*                                                                         *)
(* A string is a sequence of one-character strings.  A number is an        *)
(* integer count of 1/Scale, so that decimal fractions are exact; NaN is   *)
(* a value of its own.                                                     *)
(***************************************************************************)
\* longest grade string typed into the grade field
MaxGradeLen == 2

\* characters of the grade field
GradeChars == {" ", "-", ".", "5"}

RECURSIVE Pow10(_)
Pow10(n) == IF n = 0 THEN 1 ELSE 10 * Pow10(n - 1)

\* one unit of a number is 1/Scale
Scale == Pow10(MaxGradeLen)

NaN == Scale * Scale * Scale

DigitChars == <<"0", "1", "2", "3", "4", "5", "6", "7", "8", "9">>

IsDigit(c) == \E d \in DOMAIN DigitChars : DigitChars[d] = c

DigitValue(c) == (CHOOSE d \in DOMAIN DigitChars : DigitChars[d] = c) - 1

IsSpace(c) == c = " "

\* number of leading white-space characters, of leading digits
LeadingSpaces(str) ==
    Cardinality({i \in DOMAIN str : \A j \in 1..i : IsSpace(str[j])})

LeadingDigits(str) ==
    Cardinality({i \in DOMAIN str : \A j \in 1..i : IsDigit(str[j])})

Drop(str, n) == SubSeq(str, n + 1, Len(str))

\* String.prototype.trim
RECURSIVE TrimEnd(_)
TrimEnd(str) ==
    IF str # <<>> /\ IsSpace(str[Len(str)])
    THEN TrimEnd(SubSeq(str, 1, Len(str) - 1))
    ELSE str

Trim(str) == TrimEnd(Drop(str, LeadingSpaces(str)))

\* value of a sequence of digits read as an integer
RECURSIVE DigitsValue(_)
DigitsValue(ds) ==
    IF ds = <<>> THEN 0
    ELSE 10 * DigitsValue(SubSeq(ds, 1, Len(ds) - 1)) + DigitValue(ds[Len(ds)])

\* value, in units of 1/Scale, of a sequence of digits behind the point
FractionValue(ds) == (DigitsValue(ds) * Scale) \div Pow10(Len(ds))

\* parseFloat: leading white space is skipped, then the longest prefix that
\* is a decimal literal (sign, digits, point, digits) is read and whatever
\* follows is ignored; NaN when that prefix has no digit
parseFloat(str) ==
    LET s1       == Drop(str, LeadingSpaces(str))
        negative == s1 # <<>> /\ s1[1] = "-"
        s2       == IF negative THEN Tail(s1) ELSE s1
        nInt     == LeadingDigits(s2)
        s3       == Drop(s2, nInt)
        hasPoint == s3 # <<>> /\ s3[1] = "."
        nFrac    == IF hasPoint THEN LeadingDigits(Tail(s3)) ELSE 0
        mag      == DigitsValue(SubSeq(s2, 1, nInt)) * Scale
                    + (IF hasPoint THEN FractionValue(SubSeq(Tail(s3), 1, nFrac)) ELSE 0)
    IN  IF nInt + nFrac = 0 THEN NaN
        ELSE IF negative THEN 0 - mag ELSE mag

isNaN(x) == x = NaN

\* decimal digits of a natural number
RECURSIVE NatToString(_)
NatToString(n) ==
    IF n < 10 THEN <<DigitChars[n + 1]>>
    ELSE NatToString(n \div 10) \o <<DigitChars[(n % 10) + 1]>>

\* digits of the fraction f / p (0 <= f < p, p a power of ten), without
\* trailing zeros
RECURSIVE FractionToString(_, _)
FractionToString(f, p) ==
    IF f = 0 THEN <<>>
    ELSE <<DigitChars[((f * 10) \div p) + 1]>> \o FractionToString((f * 10) % p, p)

\* Number.prototype.toString of a non-negative number
NumberToString(x) ==
    NatToString(x \div Scale)
    \o (IF x % Scale = 0 THEN <<>> ELSE <<".">> \o FractionToString(x % Scale, Scale))

(***************************************************************************)
(* GradeSubmission                                                         *)
(***************************************************************************)
\* Assignment.max_score values the API returns
MaxScores == {7}
\* Submission.grade values the API returns (5.5); NoGrade is null
BackendGrades == {5 * Scale + Scale \div 2}
NoGrade == -1
\* Submission.feedback and the feedback field
FeedbackStrings == {<<>>, <<" ">>}
\* Submission.feedback values the API returns with a grade; <<>> is null
BackendFeedbacks == {<<"o", "k">>}

\* what GET /submissions/{id} may return
Submissions ==
    [ id       : {1},
      content  : BOOLEAN,      \* content is a non-empty string
      file_url : BOOLEAN,      \* file_url is a non-empty string
      grade    : BackendGrades \cup {NoGrade},
      feedback : BackendFeedbacks ]

NoSubmission == [id |-> 0, content |-> FALSE, file_url |-> FALSE,
                 grade |-> NoGrade, feedback |-> <<>>]

NoAssignment == [max_score |-> -1]

GradeInit ==
    [ route       |-> "grade",
      load        |-> "mount",
      submission  |-> NoSubmission,
      assignment  |-> NoAssignment,
      loading     |-> TRUE,
      grading     |-> FALSE,
      aiGrading   |-> FALSE,
      grade       |-> <<>>,
      feedback    |-> <<>>,
      gradePosts  |-> {},
      aiPosts     |-> 0,
      toast       |-> "none" ]

\* the page below the loading and "return null" early returns is shown
GradeFormShown(st) ==
    /\ st.route = "grade"
    /\ ~st.loading
    /\ st.submission # NoSubmission
    /\ st.assignment # NoAssignment

isAlreadyGraded(st) == st.submission.grade # NoGrade

\* navigate(route): the component is unmounted and its state cells are gone;
\* the requests in flight and the toast shown stay
GradeLeave(st, route) ==
    [GradeInit EXCEPT !.route = route,
                      !.loading = FALSE,
                      !.load = st.load,
                      !.gradePosts = st.gradePosts,
                      !.aiPosts = st.aiPosts,
                      !.toast = st.toast]

GradeMounted(st) == st.route = "grade"

\* loadData resolved with both GETs answered; when it was called from
\* handleAIGrade the finally block of handleAIGrade follows
LoadDataOk ==
    /\ gs.load # "idle"
    /\ \E submissionData \in Submissions, max_score \in MaxScores :
          gs' = IF ~GradeMounted(gs) THEN [gs EXCEPT !.load = "idle"]
                ELSE [gs EXCEPT
                   !.load = "idle",
                   !.submission = submissionData,
                   !.assignment = [max_score |-> max_score],
                   !.grade = IF submissionData.grade # NoGrade
                             THEN NumberToString(submissionData.grade) ELSE @,
                   !.feedback = IF submissionData.grade # NoGrade
                                THEN submissionData.feedback ELSE @,
                   !.loading = FALSE,
                   !.aiGrading = IF gs.load = "ai" THEN FALSE ELSE @]
    /\ UNCHANGED <<qt, userSelected, sb, ca, lp>>

\* loadData: one of the GETs failed
LoadDataFail ==
    /\ gs.load # "idle"
    /\ gs' = GradeLeave([gs EXCEPT !.load = "idle", !.toast = "error"],
                         "assignments")
    /\ UNCHANGED <<qt, userSelected, sb, ca, lp>>

\* onChange of the grade field
setGrade ==
    /\ GradeFormShown(gs)
    /\ \E n \in 0..MaxGradeLen : \E value \in [1..n -> GradeChars] :
          gs' = [gs EXCEPT !.grade = value]
    /\ UNCHANGED <<qt, userSelected, sb, ca, lp>>

\* onChange of the feedback field
setFeedback ==
    /\ GradeFormShown(gs)
    /\ \E value \in FeedbackStrings : gs' = [gs EXCEPT !.feedback = value]
    /\ UNCHANGED <<qt, userSelected, sb, ca, lp>>

\* the guard of handleAIGrade, dropped
AlwaysGradable(submission) == TRUE

\* messages of toast.error; the other toasts are "success" and "none"
ErrorToasts == {"error", "gradeRequired", "gradePositive", "gradeExceedsMax",
                "aiNoContent"}

\* submission?.content || submission?.file_url
HasContentOrFile(submission) == submission.content \/ submission.file_url

\* handleAIGrade up to the await of the POST.  The button that calls it is
\* rendered for ungraded submissions and disabled while aiGrading; that the
\* submission has content or a file is checked here by the handler itself.
handleAIGrade ==
    /\ GradeFormShown(gs)
    /\ ~isAlreadyGraded(gs)
    /\ ~gs.aiGrading
    /\ gs' = IF ~HasContentOrFile(gs.submission)
             THEN [gs EXCEPT !.toast = "aiNoContent"]
             ELSE [gs EXCEPT !.aiGrading = TRUE, !.aiPosts = @ + 1]
    /\ UNCHANGED <<qt, userSelected, sb, ca, lp>>

\* POST /submissions/{id}/ai-grade resolved: grade and feedback are taken
\* over and loadData is started
AIGradeOk ==
    /\ gs.aiPosts > 0
    /\ \E g \in BackendGrades, fb \in BackendFeedbacks :
          gs' = IF ~GradeMounted(gs)
                THEN [gs EXCEPT !.aiPosts = @ - 1, !.toast = "success", !.load = "ai"]
                ELSE [gs EXCEPT
                        !.aiPosts = @ - 1,
                        !.grade = NumberToString(g),
                        !.feedback = fb,
                        !.toast = "success",
                        !.loading = TRUE,
                        !.load = "ai"]
    /\ UNCHANGED <<qt, userSelected, sb, ca, lp>>

\* POST /submissions/{id}/ai-grade failed
AIGradeFail ==
    /\ gs.aiPosts > 0
    /\ gs' = [gs EXCEPT !.aiPosts = @ - 1, !.toast = "error", !.aiGrading = FALSE]
    /\ UNCHANGED <<qt, userSelected, sb, ca, lp>>

\* GradeError without the comparison with assignment.max_score
GradeErrorNoMax(grade, assignment) ==
    IF grade = <<>> \/ Trim(grade) = <<>> THEN "gradeRequired"
    ELSE IF isNaN(parseFloat(grade)) \/ parseFloat(grade) < 0 THEN "gradePositive"
    ELSE "none"

\* the three checks of handleSubmitGrade: the message of the toast.error of
\* the first check that fails, "none" when the grade passes
GradeError(grade, assignment) ==
    IF grade = <<>> \/ Trim(grade) = <<>> THEN "gradeRequired"
    ELSE IF isNaN(parseFloat(grade)) \/ parseFloat(grade) < 0 THEN "gradePositive"
    ELSE IF /\ assignment # NoAssignment
            /\ parseFloat(grade) > assignment.max_score * Scale
         THEN "gradeExceedsMax"
    ELSE "none"

\* feedback.trim() || null; the empty string stands for null
FeedbackPayload(feedback) == Trim(feedback)

\* handleSubmitGrade up to the await of the POST; the submit button is
\* disabled while grading
handleSubmitGrade ==
    /\ GradeFormShown(gs)
    /\ ~gs.grading
    /\ gs' = IF GradeError(gs.grade, gs.assignment) # "none"
             THEN [gs EXCEPT !.toast = GradeError(gs.grade, gs.assignment)]
             ELSE [gs EXCEPT
                     !.grading = TRUE,
                     !.gradePosts = @ \cup {[grade    |-> parseFloat(gs.grade),
                                             feedback |-> FeedbackPayload(gs.feedback)]}]
    /\ UNCHANGED <<qt, userSelected, sb, ca, lp>>

\* POST /submissions/{id}/grade resolved
SubmitGradeOk ==
    /\ \E post \in gs.gradePosts :
          gs' = GradeLeave([gs EXCEPT !.gradePosts = @ \ {post},
                                      !.toast = "success"],
                           "submissions")
    /\ UNCHANGED <<qt, userSelected, sb, ca, lp>>

\* POST /submissions/{id}/grade failed
SubmitGradeFail ==
    /\ \E post \in gs.gradePosts :
          gs' = [gs EXCEPT !.gradePosts = @ \ {post},
                           !.toast = "error",
                           !.grading = FALSE]
    /\ UNCHANGED <<qt, userSelected, sb, ca, lp>>

\* the Back and Cancel buttons
BackToSubmissions ==
    /\ GradeFormShown(gs)
    /\ gs' = GradeLeave(gs, "submissions")
    /\ UNCHANGED <<qt, userSelected, sb, ca, lp>>

GradeNext ==
    \/ LoadDataOk
    \/ LoadDataFail
    \/ setGrade
    \/ setFeedback
    \/ handleAIGrade
    \/ AIGradeOk
    \/ AIGradeFail
    \/ handleSubmitGrade
    \/ SubmitGradeOk
    \/ SubmitGradeFail
    \/ BackToSubmissions

(***************************************************************************)
(* CreateAssignment                                                        *)
(*                                                                         *)
(* formData keeps the three fields the handlers test or copy into a        *)
(* request: title, subject_id and chapter_id.  The ids of the form are     *)
(* strings, '' when nothing is chosen; a request carries parseInt of the   *)
(* string, a whole number.                                                 *)
(***************************************************************************)
\* parseInt: leading white space is skipped, then a sign and the longest
\* run of digits are read and whatever follows is ignored; NaN when there is
\* no digit.  The result is a whole number, not a count of 1/Scale.
parseInt(str) ==
    LET s1       == Drop(str, LeadingSpaces(str))
        negative == s1 # <<>> /\ s1[1] = "-"
        s2       == IF negative THEN Tail(s1) ELSE s1
        nInt     == LeadingDigits(s2)
        mag      == DigitsValue(SubSeq(s2, 1, nInt))
    IN  IF nInt = 0 THEN NaN
        ELSE IF negative THEN 0 - mag ELSE mag

\* what GET /subjects returns: subjects with the ids of their chapters
SubjectList ==
    << [id |-> 1, chapters |-> <<1, 12>>],
       [id |-> 2, chapters |-> <<3>>] >>

\* the initial title ('Circuit Analysis Assignment'), the titles the user
\* types and the titles the AI returns; <<>> is a missing title
InitialTitle == <<"C">>
TypedTitles == {<<>>, <<"T">>}
GeneratedTitles == {<<>>, <<"G">>}

AssignInit ==
    [ route       |-> "create",
      load        |-> "mount",      \* loadSubjects: "mount", "done", "failed"
      subjects    |-> <<>>,
      loading     |-> FALSE,
      generating  |-> FALSE,
      formData    |-> [title |-> InitialTitle, subject_id |-> <<>>, chapter_id |-> <<>>],
      createPosts |-> {},           \* payloads of POST /assignments/ in flight
      aiPosts     |-> {},           \* POST /ai/generate-assignment in flight
      toast       |-> "none" ]

AssignMounted(st) == st.route = "create"

\* navigate('/assignments'): the component is unmounted and its state is
\* gone; requests in flight and the toast stay
AssignLeave(st) ==
    [AssignInit EXCEPT !.route = "assignments",
                       !.load = st.load,
                       !.createPosts = st.createPosts,
                       !.aiPosts = st.aiPosts,
                       !.toast = st.toast]

\* loadSubjects resolved
loadSubjectsOk ==
    /\ ca.load = "mount"
    /\ ca' = IF AssignMounted(ca)
             THEN [ca EXCEPT !.load = "done", !.subjects = SubjectList]
             ELSE [ca EXCEPT !.load = "done"]
    /\ UNCHANGED <<qt, userSelected, sb, gs, lp>>

\* loadSubjects failed
loadSubjectsFail ==
    /\ ca.load = "mount"
    /\ ca' = [ca EXCEPT !.load = "failed", !.toast = "failedToLoadSubjects"]
    /\ UNCHANGED <<qt, userSelected, sb, gs, lp>>

\* onChange of the title input
setTitle ==
    /\ AssignMounted(ca)
    /\ \E value \in TypedTitles :
          /\ value # ca.formData.title
          /\ ca' = [ca EXCEPT !.formData.title = value]
    /\ UNCHANGED <<qt, userSelected, sb, gs, lp>>

\* onValueChange of the subject Select: the chapter is reset
selectSubject ==
    /\ AssignMounted(ca)
    /\ \E i \in DOMAIN ca.subjects :
          LET value == NatToString(ca.subjects[i].id)
          IN  /\ value # ca.formData.subject_id
              /\ ca' = [ca EXCEPT !.formData.subject_id = value,
                                  !.formData.chapter_id = <<>>]
    /\ UNCHANGED <<qt, userSelected, sb, gs, lp>>

\* subjects.find((s) => s.id === parseInt(formData.subject_id)); <<>> when
\* there is none
selectedSubjectChapters(st) ==
    LET found == {i \in DOMAIN st.subjects :
                    st.subjects[i].id = parseInt(st.formData.subject_id)}
    IN  IF found = {} THEN <<>>
        ELSE st.subjects[CHOOSE i \in found : \A j \in found : i <= j].chapters

\* onValueChange of the chapter Select, disabled while no subject is chosen
selectChapter ==
    /\ AssignMounted(ca)
    /\ ca.formData.subject_id # <<>>
    /\ \E i \in DOMAIN selectedSubjectChapters(ca) :
          LET value == NatToString(selectedSubjectChapters(ca)[i])
          IN  /\ value # ca.formData.chapter_id
              /\ ca' = [ca EXCEPT !.formData.chapter_id = value]
    /\ UNCHANGED <<qt, userSelected, sb, gs, lp>>

\* the test of handleSubmit without the chapter: !formData.title
MissingTitle(formData) == formData.title = <<>>

\* !formData.title || !formData.chapter_id
MissingRequired(formData) == formData.title = <<>> \/ formData.chapter_id = <<>>

\* handleSubmit up to the await of the POST.  The submit button is disabled
\* while loading; that the required fields are filled is checked here by
\* the handler itself.
handleSubmitAssignment ==
    /\ AssignMounted(ca)
    /\ ~ca.loading
    /\ ca' = IF MissingRequired(ca.formData)
             THEN [ca EXCEPT !.toast = "fillAllRequired"]
             ELSE [ca EXCEPT
                     !.loading = TRUE,
                     !.createPosts = @ \cup
                        {[title      |-> ca.formData.title,
                          chapter_id |-> parseInt(ca.formData.chapter_id)]}]
    /\ UNCHANGED <<qt, userSelected, sb, gs, lp>>

\* POST /assignments/ resolved: navigate('/assignments')
CreateOk ==
    /\ \E post \in ca.createPosts :
          ca' = [AssignLeave(ca) EXCEPT !.createPosts = @ \ {post},
                                        !.toast = "createSuccess"]
    /\ UNCHANGED <<qt, userSelected, sb, gs, lp>>

\* POST /assignments/ failed
CreateFail ==
    /\ \E post \in ca.createPosts :
          ca' = [ca EXCEPT !.createPosts = @ \ {post},
                           !.toast = "createError",
                           !.loading = FALSE]
    /\ UNCHANGED <<qt, userSelected, sb, gs, lp>>

\* generateWithAI up to the await of the POST.  The button is disabled
\* while generating; that a chapter is chosen is checked here by the handler
\* itself.  The request remembers the formData of this render, which the
\* continuation spreads into the new formData.
generateWithAI ==
    /\ AssignMounted(ca)
    /\ ~ca.generating
    /\ ca' = IF ca.formData.chapter_id = <<>>
             THEN [ca EXCEPT !.toast = "selectChapterFirst"]
             ELSE [ca EXCEPT
                     !.generating = TRUE,
                     !.aiPosts = @ \cup
                        {[chapter_id |-> parseInt(ca.formData.chapter_id),
                          formData   |-> ca.formData]}]
    /\ UNCHANGED <<qt, userSelected, sb, gs, lp>>

\* POST /ai/generate-assignment resolved: setFormData({...formData, title})
\* with the formData of the render that sent the request
GenerateAssignmentOk ==
    /\ \E post \in ca.aiPosts, title \in GeneratedTitles :
          ca' = IF ~AssignMounted(ca)
                THEN [ca EXCEPT !.aiPosts = @ \ {post},
                                !.toast = "assignmentGenerated"]
                ELSE [ca EXCEPT !.aiPosts = @ \ {post},
                                !.formData = [post.formData EXCEPT !.title = title],
                                !.toast = "assignmentGenerated",
                                !.generating = FALSE]
    /\ UNCHANGED <<qt, userSelected, sb, gs, lp>>

\* POST /ai/generate-assignment failed
GenerateAssignmentFail ==
    /\ \E post \in ca.aiPosts :
          ca' = IF ~AssignMounted(ca)
                THEN [ca EXCEPT !.aiPosts = @ \ {post},
                                !.toast = "failedToGenerateAssignment"]
                ELSE [ca EXCEPT !.aiPosts = @ \ {post},
                                !.toast = "failedToGenerateAssignment",
                                !.generating = FALSE]
    /\ UNCHANGED <<qt, userSelected, sb, gs, lp>>

\* the Cancel button, disabled while loading
CancelAssignment ==
    /\ AssignMounted(ca)
    /\ ~ca.loading
    /\ ca' = AssignLeave(ca)
    /\ UNCHANGED <<qt, userSelected, sb, gs, lp>>

AssignNext ==
    \/ loadSubjectsOk
    \/ loadSubjectsFail
    \/ setTitle
    \/ selectSubject
    \/ selectChapter
    \/ handleSubmitAssignment
    \/ CreateOk
    \/ CreateFail
    \/ generateWithAI
    \/ GenerateAssignmentOk
    \/ GenerateAssignmentFail
    \/ CancelAssignment

(***************************************************************************)
(* LessonPlanner                                                           *)
(*                                                                         *)
(* selectedSubject and selectedChapter are numbers; NoSelection is null.   *)
(* The ids the API returns are positive.  Of the request only chapter_id   *)
(* is kept, and of the plan the chapter it was made for and its title.     *)
(***************************************************************************)
NoSelection == 0

NoPlan == [chapter_id |-> NoSelection, title |-> "none"]

\* response.data of POST /lesson-plans/generate-ai
PlanTitles == {"a", "b"}

PlannerInit ==
    [ load            |-> "mount",  \* loadSubjects: "mount", "done", "failed"
      subjects        |-> <<>>,
      selectedSubject |-> NoSelection,
      selectedChapter |-> NoSelection,
      chapters        |-> <<>>,
      generating      |-> FALSE,
      lessonPlan      |-> NoPlan,
      planPosts       |-> {},       \* POST /lesson-plans/generate-ai in flight
      toast           |-> "none" ]

\* the effect on [selectedSubject, subjects]: the chapters of the selected
\* subject are listed and the selected chapter is cleared
SubjectEffect(st) ==
    LET found == {i \in DOMAIN st.subjects : st.subjects[i].id = st.selectedSubject}
    IN  IF st.selectedSubject # NoSelection /\ found # {}
        THEN [st EXCEPT
                !.chapters = st.subjects[CHOOSE i \in found : \A j \in found : i <= j].chapters,
                !.selectedChapter = NoSelection]
        ELSE st

\* loadSubjects resolved; subjects changes, so the effect runs
LoadPlannerSubjectsOk ==
    /\ lp.load = "mount"
    /\ lp' = SubjectEffect([lp EXCEPT !.load = "done", !.subjects = SubjectList])
    /\ UNCHANGED <<qt, userSelected, sb, gs, ca>>

\* loadSubjects failed
LoadPlannerSubjectsFail ==
    /\ lp.load = "mount"
    /\ lp' = [lp EXCEPT !.load = "failed", !.toast = "failedToLoadSubjects"]
    /\ UNCHANGED <<qt, userSelected, sb, gs, ca>>

\* onValueChange of the subject Select; selectedSubject changes, so the
\* effect runs
setSelectedSubject ==
    /\ \E i \in DOMAIN lp.subjects :
          LET value == parseInt(NatToString(lp.subjects[i].id))
          IN  /\ value # lp.selectedSubject
              /\ lp' = SubjectEffect([lp EXCEPT !.selectedSubject = value])
    /\ UNCHANGED <<qt, userSelected, sb, gs, ca>>

\* onValueChange of the chapter Select, disabled while no subject is
\* selected
setSelectedChapter ==
    /\ lp.selectedSubject # NoSelection
    /\ \E i \in DOMAIN lp.chapters :
          LET value == parseInt(NatToString(lp.chapters[i]))
          IN  /\ value # lp.selectedChapter
              /\ lp' = [lp EXCEPT !.selectedChapter = value]
    /\ UNCHANGED <<qt, userSelected, sb, gs, ca>>

\* generateLessonPlan up to the await of the POST; the button is disabled
\* while generating
generateLessonPlan ==
    /\ ~lp.generating
    /\ lp' = IF lp.selectedChapter = NoSelection
             THEN [lp EXCEPT !.toast = "selectChapterFirst"]
             ELSE [lp EXCEPT
                     !.generating = TRUE,
                     !.planPosts = @ \cup {[chapter_id |-> lp.selectedChapter]}]
    /\ UNCHANGED <<qt, userSelected, sb, gs, ca>>

\* POST /lesson-plans/generate-ai resolved
GeneratePlanOk ==
    /\ \E post \in lp.planPosts, title \in PlanTitles :
          lp' = [lp EXCEPT
                   !.planPosts = @ \ {post},
                   !.lessonPlan = [chapter_id |-> post.chapter_id, title |-> title],
                   !.toast = "planGenerated",
                   !.generating = FALSE]
    /\ UNCHANGED <<qt, userSelected, sb, gs, ca>>

\* the catch block with setLessonPlan(null) added
GeneratePlanFailClearsPlan ==
    /\ \E post \in lp.planPosts :
          lp' = [lp EXCEPT
                   !.planPosts = @ \ {post},
                   !.lessonPlan = NoPlan,
                   !.toast = "failedToGenerate",
                   !.generating = FALSE]
    /\ UNCHANGED <<qt, userSelected, sb, gs, ca>>

\* POST /lesson-plans/generate-ai failed
GeneratePlanFail ==
    /\ \E post \in lp.planPosts :
          lp' = [lp EXCEPT
                   !.planPosts = @ \ {post},
                   !.toast = "failedToGenerate",
                   !.generating = FALSE]
    /\ UNCHANGED <<qt, userSelected, sb, gs, ca>>

PlannerNext ==
    \/ LoadPlannerSubjectsOk
    \/ LoadPlannerSubjectsFail
    \/ setSelectedSubject
    \/ setSelectedChapter
    \/ generateLessonPlan
    \/ GeneratePlanOk
    \/ GeneratePlanFail

Init ==
    /\ qt = QuizInit
    /\ userSelected = EmptyMap
    /\ sb = NotMounted
    /\ gs = NotMounted
    /\ ca = NotMounted
    /\ lp = NotMounted

Next ==
    \/ FetchQuizNone
    \/ FetchQuizFail
    \/ FetchQuizOk
    \/ Tick
    \/ handleAnswerChange
    \/ handleNext
    \/ handlePrevious
    \/ JumpToQuestion
    \/ SubmitButton
    \/ SubmitOk
    \/ SubmitFail

Spec == Init /\ [][Next]_vars

InitSubjects ==
    /\ qt = NotMounted
    /\ userSelected = EmptyMap
    /\ sb \in SubjectsInits
    /\ gs = NotMounted
    /\ ca = NotMounted
    /\ lp = NotMounted

SpecSubjects == InitSubjects /\ [][SubjectsNext]_vars

InitGrade ==
    /\ qt = NotMounted
    /\ userSelected = EmptyMap
    /\ sb = NotMounted
    /\ gs = GradeInit
    /\ ca = NotMounted
    /\ lp = NotMounted

SpecGrade == InitGrade /\ [][GradeNext]_vars

InitAssign ==
    /\ qt = NotMounted
    /\ userSelected = EmptyMap
    /\ sb = NotMounted
    /\ gs = NotMounted
    /\ ca = AssignInit
    /\ lp = NotMounted

SpecAssign == InitAssign /\ [][AssignNext]_vars

InitPlanner ==
    /\ qt = NotMounted
    /\ userSelected = EmptyMap
    /\ sb = NotMounted
    /\ gs = NotMounted
    /\ ca = NotMounted
    /\ lp = PlannerInit

SpecPlanner == InitPlanner /\ [][PlannerNext]_vars

InitRender ==
    /\ qt = NotMounted
    /\ userSelected = EmptyMap
    /\ sb \in RenderInits
    /\ gs = NotMounted
    /\ ca = NotMounted
    /\ lp = NotMounted

SpecRender == InitRender /\ [][RenderNext]_vars

InitPayload ==
    /\ qt \in ShownQuizzes
    /\ userSelected = qt.answers
    /\ sb = NotMounted
    /\ gs = NotMounted
    /\ ca = NotMounted
    /\ lp = NotMounted

SpecPayload == InitPayload /\ [][PayloadNext]_vars

\* the interval timer keeps firing while the page is mounted, and every
\* request is eventually answered
FairSpec ==
    /\ Spec
    /\ WF_vars(Tick)
    /\ WF_vars(FetchQuizNone \/ FetchQuizFail \/ FetchQuizOk)
    /\ WF_vars(SubmitOk \/ SubmitFail)

(***************************************************************************)
(* Claims: QuizTaking                                                      *)
(***************************************************************************)

\* C1: the answers map holds, for every question, exactly the last value the
\* user selected for it and no entry for a question never answered; a step
\* that changes the map is taken with the quiz shown and changes only the
\* entry of the current question.
C1_AnswersKept ==
    /\ [](qt.answers = userSelected)
    /\ [][qt.answers' # qt.answers =>
            /\ QuizShown(qt)
            /\ DOMAIN qt.answers' = DOMAIN qt.answers \cup {currentQuestion(qt)}
            /\ \A k \in DOMAIN qt.answers :
                   k # currentQuestion(qt) => qt.answers'[k] = qt.answers[k]]_vars

\* both questions answered, the first one shown again, time has passed and a
\* submit request has failed
C1_Witness ==
    /\ qt.route = "quiz"
    /\ DOMAIN qt.answers = {1, 2}
    /\ qt.answers[1] # qt.answers[2]
    /\ qt.currentQuestionIndex = 0
    /\ qt.elapsedTime > 0
    /\ qt.toast = "error"
    /\ ~qt.submitting

\* the quiz is shown, its elapsed-time counter has just reached the limit and
\* no submit request is in flight
TimeUp ==
    /\ QuizShown(qt)
    /\ TimeLimitReached(qt)
    /\ qt.elapsedTime = qt.quiz.time_limit * 60
    /\ qt.pending = 0

\* C2: once the elapsed-time counter reaches time_limit * 60, a submit
\* request for the attempt is eventually sent.
C2_TimeUpSubmits == [](TimeUp => <>(qt.pending > 0))

\* C3: at most one submit request is in flight at any time, and after a
\* submit request has succeeded no further one is sent.
C3_OneSubmitInFlight ==
    /\ [](qt.pending <= 1)
    /\ [][qt.route = "results" => qt.pending' <= qt.pending]_vars

(***************************************************************************)
(* Claims: Subjects                                                        *)
(***************************************************************************)

\* the chapter is the first of the list in ascending order, or the chapter
\* immediately before it in that order is completed
FirstOrPreviousCompleted(chapter, subjectChapters, completedChapters) ==
    LET asc == SortByOrder(subjectChapters)
        k   == CHOOSE i \in DOMAIN asc : asc[i].id = chapter.id
    IN  k = 1 \/ asc[k - 1].id \in completedChapters

\* C5: on the page with chapter locking the quiz button of a chapter is
\* offered and enabled exactly when the user is a student enrolled in the
\* subject and the chapter is the first in ascending order or the chapter
\* before it is in completedChapters.
C5_QuizOpenRule ==
    (Mounted(sb) /\ sb.locking) =>
        \A subjectId \in SubjectIds :
           \A i \in DOMAIN ChaptersOf(sb, subjectId) :
              LET subjectChapters == ChaptersOf(sb, subjectId)
              IN  QuizButtonEnabled(sb.locking, sb.user,
                                    subjectId \in sb.enrolledCourses,
                                    subjectChapters[i], subjectChapters,
                                    sb.completedChapters)
                  <=> /\ sb.user = "student"
                      /\ subjectId \in sb.enrolledCourses
                      /\ FirstOrPreviousCompleted(subjectChapters[i], subjectChapters,
                                                  sb.completedChapters)

C7_EnrollAfterSuccess ==
    [][\A subjectId \in SubjectIds :
          /\ ( /\ subjectId \in sb'.enrolledCourses \ sb.enrolledCourses
               /\ sb'.fetchEnrollments = sb.fetchEnrollments )
             => /\ subjectId \in sb.enrollPosts \ sb'.enrollPosts
                /\ sb'.toast = "success"
          /\ EnrollFail(subjectId)
             => /\ sb'.enrolledCourses = sb.enrolledCourses
                /\ sb'.toast = "error"
                /\ Mounted(sb) =>
                      /\ subjectId \notin sb'.enrollingCourses
                      /\ subjectId \notin sb.enrolledCourses
                            => EnrollButtonEnabled(sb', subjectId)]_vars

\* the POST for subject 1 has failed and its button is enabled again, while
\* subject 2 was enrolled by a POST that succeeded
C7_Witness ==
    /\ Mounted(sb)
    /\ sb.fetchEnrollments = "failed"
    /\ sb.toast = "error"
    /\ sb.enrolledCourses = {2}
    /\ sb.enrollPosts = {}
    /\ EnrollButtonEnabled(sb, 1)

(***************************************************************************)
(* Claims: GradeSubmission                                                 *)
(***************************************************************************)

\* the grade field is not blank and parses to a number between 0 and
\* max_score
GradeInRange(grade, max_score) ==
    /\ Trim(grade) # <<>>
    /\ ~isNaN(parseFloat(grade))
    /\ 0 <= parseFloat(grade)
    /\ parseFloat(grade) <= max_score * Scale

\* C4: a grade request is sent only when the grade field is not blank and
\* parses to a number g with 0 <= g <= assignment.max_score, and carries g;
\* handleSubmitGrade with any other grade reports an error, sends nothing,
\* does not navigate and leaves grading false.
C4_GradeValidated ==
    [][/\ \A post \in gs'.gradePosts \ gs.gradePosts :
             /\ GradeInRange(gs.grade, gs.assignment.max_score)
             /\ post.grade = parseFloat(gs.grade)
       /\ ( /\ gs'.grade = gs.grade
            /\ handleSubmitGrade
            /\ ~GradeInRange(gs.grade, gs.assignment.max_score) )
             => /\ gs'.toast \in ErrorToasts
                /\ gs'.gradePosts = gs.gradePosts
                /\ gs'.route = gs.route
                /\ ~gs'.grading]_vars

\* a grade above max_score (55 > 7) has been refused: the form is still shown, with
\* no request in flight and grading false
C4_Witness ==
    /\ GradeFormShown(gs)
    /\ gs.toast = "gradeExceedsMax"
    /\ parseFloat(gs.grade) > gs.assignment.max_score * Scale
    /\ ~isNaN(parseFloat(gs.grade))
    /\ gs.gradePosts = {}
    /\ ~gs.grading

\* C9: an AI-grade request is sent only for a submission that has text
\* content or a file; handleAIGrade for a submission with neither reports an
\* error, sends nothing and leaves aiGrading, grade and feedback unchanged.
C9_AIGradeNeedsContent ==
    [][/\ gs'.aiPosts > gs.aiPosts
             => gs.submission.content \/ gs.submission.file_url
       /\ (~gs.submission.content /\ ~gs.submission.file_url /\ handleAIGrade)
             => /\ gs'.toast \in ErrorToasts
                /\ gs'.aiPosts = gs.aiPosts
                /\ gs'.aiGrading = gs.aiGrading
                /\ gs'.grade = gs.grade
                /\ gs'.feedback = gs.feedback]_vars

\* AI grading has been refused for a submission without content and file
C9_Witness ==
    /\ GradeFormShown(gs)
    /\ gs.toast = "aiNoContent"
    /\ ~gs.submission.content
    /\ ~gs.submission.file_url
    /\ gs.aiPosts = 0
    /\ ~gs.aiGrading

(***************************************************************************)
(* Claims: CreateAssignment                                                *)
(***************************************************************************)

\* C8: a POST /assignments/ is sent only when title and chapter_id of the
\* form are both non-empty and carries that title and the number chapter_id
\* spells; a POST /ai/generate-assignment is sent only when chapter_id is
\* non-empty and carries the number it spells; handleSubmit with an empty
\* title or chapter_id, and generateWithAI with an empty chapter_id, report
\* an error, send nothing and leave loading, generating false.
C8_RequestsCarryChapter ==
    [][/\ \A post \in ca'.createPosts \ ca.createPosts :
             /\ ca.formData.title # <<>>
             /\ ca.formData.chapter_id # <<>>
             /\ post.title = ca.formData.title
             /\ ~isNaN(post.chapter_id)
             /\ NatToString(post.chapter_id) = ca.formData.chapter_id
       /\ \A post \in ca'.aiPosts \ ca.aiPosts :
             /\ ca.formData.chapter_id # <<>>
             /\ ~isNaN(post.chapter_id)
             /\ NatToString(post.chapter_id) = ca.formData.chapter_id
       /\ ( /\ handleSubmitAssignment
            /\ (ca.formData.title = <<>> \/ ca.formData.chapter_id = <<>>) )
             => /\ ca'.toast = "fillAllRequired"
                /\ ca'.createPosts = ca.createPosts
                /\ ca'.aiPosts = ca.aiPosts
                /\ ~ca'.loading
       /\ ( /\ generateWithAI
            /\ ca.formData.chapter_id = <<>> )
             => /\ ca'.toast = "selectChapterFirst"
                /\ ca'.createPosts = ca.createPosts
                /\ ca'.aiPosts = ca.aiPosts
                /\ ~ca'.generating]_vars

\* the form has been submitted with a title and no chapter and was refused:
\* the page is still shown, nothing is in flight and loading is false
C8_Witness ==
    /\ AssignMounted(ca)
    /\ ca.toast = "fillAllRequired"
    /\ ca.formData.title # <<>>
    /\ ca.formData.subject_id # <<>>
    /\ ca.formData.chapter_id = <<>>
    /\ ca.createPosts = {}
    /\ ~ca.loading

(***************************************************************************)
(* Claims: LessonPlanner                                                   *)
(***************************************************************************)

\* C10: a generation request is sent only when a chapter is selected, and
\* for that chapter; generateLessonPlan with no chapter selected reports
\* 'Please select a chapter first', sends nothing and leaves generating and
\* lessonPlan unchanged; when a request fails lessonPlan is kept and
\* generating is false afterwards.
C10_GenerateNeedsChapter ==
    [][/\ \A post \in lp'.planPosts \ lp.planPosts :
             /\ lp.selectedChapter # NoSelection
             /\ post.chapter_id = lp.selectedChapter
       /\ ( /\ generateLessonPlan
            /\ lp.selectedChapter = NoSelection )
             => /\ lp'.toast = "selectChapterFirst"
                /\ lp'.planPosts = lp.planPosts
                /\ lp'.generating = lp.generating
                /\ lp'.lessonPlan = lp.lessonPlan
       /\ ( /\ lp'.planPosts # lp.planPosts
            /\ lp'.planPosts \subseteq lp.planPosts
            /\ lp'.toast = "failedToGenerate" )
             => /\ lp'.lessonPlan = lp.lessonPlan
                /\ ~lp'.generating]_vars

\* a plan is displayed and a later request for another chapter has failed
C10_Witness ==
    /\ lp.lessonPlan # NoPlan
    /\ lp.toast = "failedToGenerate"
    /\ lp.selectedChapter # NoSelection
    /\ lp.selectedChapter # lp.lessonPlan.chapter_id
    /\ lp.planPosts = {}
    /\ ~lp.generating

(***************************************************************************)
(* Claims: isChapterLocked                                                 *)
(***************************************************************************)

\* no chapter of the list has a smaller order
HasSmallestOrder(chapter, subjectChapters) ==
    \A i \in DOMAIN subjectChapters : chapter.order <= subjectChapters[i].order

\* p comes immediately before chapter when the orders are put in ascending
\* order: its order is smaller and no order lies between the two
ImmediatelyPrecedes(p, chapter, subjectChapters) ==
    /\ p.order < chapter.order
    /\ \A i \in DOMAIN subjectChapters :
          ~(p.order < subjectChapters[i].order /\ subjectChapters[i].order < chapter.order)

\* the same chapters listed in another order
Relistings(subjectChapters) ==
    {[i \in DOMAIN subjectChapters |-> subjectChapters[p[i]]] :
        p \in Reorderings(Len(subjectChapters))}

\* C11 as stated: isChapterLocked is false for every user who is not a
\* student and for a chapter with the smallest order of the subject; for a
\* student and any other chapter it is true exactly when the chapter
\* immediately preceding it in ascending order is not in completedChapters;
\* listing the same chapters in another order gives the same result.
C11_LockedByOrder ==
    (sb.route = "render" /\ sb.rendered) =>
        LET chapter == sb.subjectChapters[sb.index]
        IN  /\ sb.user # "student" => ~sb.locked
            /\ HasSmallestOrder(chapter, sb.subjectChapters) => ~sb.locked
            /\ (sb.user = "student" /\ ~HasSmallestOrder(chapter, sb.subjectChapters))
                  => \A i \in DOMAIN sb.subjectChapters :
                        ImmediatelyPrecedes(sb.subjectChapters[i], chapter, sb.subjectChapters)
                           => (sb.locked <=> sb.subjectChapters[i].id \notin sb.completedChapters)
            /\ \A relisted \in Relistings(sb.subjectChapters) :
                  isChapterLocked(sb.user, chapter, relisted, sb.completedChapters) = sb.locked

\* no two chapters of the list have the same order
DistinctOrders(subjectChapters) ==
    \A i, j \in DOMAIN subjectChapters :
       subjectChapters[i].order = subjectChapters[j].order => i = j

\* a comes before b in ascending order, chapters of equal order in the
\* order in which they are listed
ComesBefore(a, b, subjectChapters) ==
    \/ subjectChapters[a].order < subjectChapters[b].order
    \/ subjectChapters[a].order = subjectChapters[b].order /\ a < b

\* C11 amended: isChapterLocked is false for every user who is not a
\* student; for a student it is true exactly when the chapter has a chapter
\* before it in ascending order, chapters of equal order counted in the order
\* in which they are listed, and the last such chapter is not in
\* completedChapters.  When no two chapters of the subject have the same
\* order the result does not depend on the order of the listing.
C11_LockedByStableOrder ==
    (sb.route = "render" /\ sb.rendered) =>
        LET chs     == sb.subjectChapters
            chapter == chs[sb.index]
        IN  /\ sb.user # "student" => ~sb.locked
            /\ sb.user = "student" =>
                  (sb.locked <=>
                     \E a \in DOMAIN chs :
                        /\ ComesBefore(a, sb.index, chs)
                        /\ \A b \in DOMAIN chs :
                              ~(ComesBefore(a, b, chs) /\ ComesBefore(b, sb.index, chs))
                        /\ chs[a].id \notin sb.completedChapters)
            /\ DistinctOrders(chs) =>
                  \A relisted \in Relistings(chs) :
                     isChapterLocked(sb.user, chapter, relisted, sb.completedChapters) = sb.locked

\* a student's chapter listed first but second in ascending order has been
\* rendered unlocked, the chapter of smaller order listed after it being
\* completed
C11_Witness ==
    /\ sb.route = "render"
    /\ sb.rendered
    /\ sb.user = "student"
    /\ DistinctOrders(sb.subjectChapters)
    /\ Len(sb.subjectChapters) >= 2
    /\ sb.index = 1
    /\ ImmediatelyPrecedes(sb.subjectChapters[2], sb.subjectChapters[1], sb.subjectChapters)
    /\ sb.subjectChapters[2].id \in sb.completedChapters
    /\ ~sb.locked

(***************************************************************************)
(* Claims: QuizTaking, the payload                                         *)
(***************************************************************************)

\* C12: the answers of a request handleSubmit sends have one entry per
\* question of the attempt, in question order: question_id is the question,
\* answer is the option the user selected for it or "" when there is none,
\* time_spent is the clock reading taken at submit for the current question
\* and for any other the time recorded in questionTimes, or 0 when there is
\* none.
C12_PayloadPerQuestion ==
    [][Len(qt'.posts) > Len(qt.posts) =>
          LET post == qt'.posts[Len(qt'.posts)]
              arr  == post.answers
              cur  == qt'.questions[qt'.currentQuestionIndex + 1]
          IN  /\ Len(arr) = Len(qt'.questions)
              /\ \A i \in DOMAIN arr :
                    LET q == qt'.questions[i]
                    IN  /\ arr[i].question_id = q
                        /\ arr[i].answer = (IF q \in DOMAIN userSelected'
                                            THEN userSelected'[q] ELSE "")
                        /\ arr[i].time_spent =
                              (IF q = cur THEN post.timeSpent
                               ELSE IF q \in DOMAIN qt'.questionTimes
                                    THEN qt'.questionTimes[q] ELSE 0)]_vars

\* a request is in flight whose first question is answered and has its
\* recorded time, and whose second, the current one, is unanswered and
\* carries the reading taken at submit, not the time recorded for it before
C12_Witness ==
    /\ qt.route = "quiz"
    /\ Len(qt.posts) = 1
    /\ Len(qt.posts[1].answers) = 2
    /\ qt.posts[1].answers[1].answer = "A"
    /\ qt.posts[1].answers[1].time_spent = 1
    /\ qt.posts[1].answers[2].answer = ""
    /\ qt.posts[1].answers[2].time_spent = 1
    /\ qt.currentQuestionIndex = 1
    /\ MapHas(qt.questionTimes, 2)
    /\ qt.questionTimes[2] = 0

====
